---- MODULE Spec2Model ----
(***************************************************************************)
(* MT103 to JSON conversion (mt103_json.py).                               *)
(*                                                                         *)
(* A Python str is modelled as a sequence of one-character strings, a dict *)
(* as a function whose domain is its set of keys, a list as a sequence.    *)
(* The regular expressions of the source are transcribed element by        *)
(* element as pattern values and run by a small matcher (MatchFrom,        *)
(* SearchFrom, FindAll) that follows the semantics of Python's re module.  *)
(***************************************************************************)
EXTENDS Integers, Sequences, FiniteSets, TLC

VARIABLES input, mt103_message, blocks, result, pc, fn, arg, ret

vars == <<input, mt103_message, blocks, result, pc, fn, arg, ret>>

-----------------------------------------------------------------------------
(* Characters and character classes of the re module                       *)

Digit == {"0", "1", "2", "3", "4", "5", "6", "7", "8", "9"}

Upper == {"A", "B", "C", "D", "E", "F", "G", "H", "I", "J", "K", "L", "M",
          "N", "O", "P", "Q", "R", "S", "T", "U", "V", "W", "X", "Y", "Z"}

\* \s and the characters str.strip removes, among the characters of the
\* messages modelled here
WS == {" ", "\n", "\t", "\r", "\f"}

NL == "\n"

\* a character class: the set c, or its complement when neg
In(c) == [c |-> c, neg |-> FALSE]

NotIn(c) == [c |-> c, neg |-> TRUE]

InClass(ch, cls) == (ch \in cls.c) # cls.neg

-----------------------------------------------------------------------------
(* str operations                                                          *)

EmptyDict == <<>>

\* dict.update(e): the keys of e win
Update(d, e) == e @@ d

\* a run of dict.update calls
RECURSIVE UpdateAll(_, _)
UpdateAll(d, es) == IF es = <<>> THEN d ELSE UpdateAll(Update(d, Head(es)), Tail(es))

\* s[i:j] with 1-based i and exclusive j
Slice(s, i, j) == SubSeq(s, i, j - 1)

HasAt(t, i, lit) ==
    /\ i + Len(lit) - 1 <= Len(t)
    /\ \A k \in 1..Len(lit) : t[i + k - 1] = lit[k]

startswith(s, prefix) == HasAt(s, 1, prefix)

RECURSIVE lstrip(_)
lstrip(s) == IF s # <<>> /\ Head(s) \in WS THEN lstrip(Tail(s)) ELSE s

RECURSIVE rstrip(_)
rstrip(s) ==
    IF s # <<>> /\ s[Len(s)] \in WS THEN rstrip(SubSeq(s, 1, Len(s) - 1)) ELSE s

strip(s) == rstrip(lstrip(s))

\* index of the first ch in s at or after i, Len(s) + 1 when there is none
RECURSIVE IndexOf(_, _, _)
IndexOf(s, ch, i) ==
    IF i > Len(s) \/ s[i] = ch THEN i ELSE IndexOf(s, ch, i + 1)

\* s.split(ch): always at least one piece
RECURSIVE split(_, _)
split(s, ch) ==
    LET j == IndexOf(s, ch, 1)
    IN  IF j > Len(s) THEN <<s>>
        ELSE <<Slice(s, 1, j)>> \o split(SubSeq(s, j + 1, Len(s)), ch)

\* s.split(ch, 1): at most one cut
split1(s, ch) ==
    LET j == IndexOf(s, ch, 1)
    IN  IF j > Len(s) THEN <<s>>
        ELSE <<Slice(s, 1, j), SubSeq(s, j + 1, Len(s))>>

\* ch.join(parts)
RECURSIVE join(_, _)
join(ch, parts) ==
    IF parts = <<>> THEN <<>>
    ELSE IF Len(parts) = 1 THEN parts[1]
    ELSE parts[1] \o <<ch>> \o join(ch, Tail(parts))

\* only the first a is replaced
replace_first(s, a, b) ==
    [k \in 1..Len(s) |->
        IF s[k] = a /\ (\A j \in 1..(k - 1) : s[j] # a) THEN b ELSE s[k]]

\* s.replace(a, b) for single characters
replace(s, a, b) == [k \in 1..Len(s) |-> IF s[k] = a THEN b ELSE s[k]]

\* ":50F:" in text
Contains(t, lit) == \E i \in 1..Len(t) : HasAt(t, i, lit)

-----------------------------------------------------------------------------
(* The matcher.  A pattern is a sequence of elements:                      *)
(*   Lit(s)       the literal s                                            *)
(*   Opt(s)       s?                                                       *)
(*   Rep(cls, n)  (cls{n}), a captured group of exactly n characters       *)
(*   Plus(cls)    (cls+), a captured greedy run                            *)
(*   LazyToTag    (.+?)(?=:\d{2}[A-Z]?:|$) under re.DOTALL                 *)
(* A match is [ok, end, g]: end is the position after the match and g the  *)
(* captured groups in order.                                               *)

Lit(s) == [op |-> "lit", s |-> s]

Opt(s) == [op |-> "opt", s |-> s]

Rep(cls, n) == [op |-> "rep", cls |-> cls, n |-> n]

Plus(cls) == [op |-> "plus", cls |-> cls]

LazyToTag == [op |-> "lazy"]

NoMatch == [ok |-> FALSE, end |-> 0, g |-> <<>>]

\* end of the greedy run of cls starting at i
RECURSIVE RunEnd(_, _, _)
RunEnd(t, i, cls) ==
    IF i <= Len(t) /\ InClass(t[i], cls) THEN RunEnd(t, i + 1, cls) ELSE i

\* :\d{2}[A-Z]?: at position i
TagAt(t, i) ==
    /\ i + 3 <= Len(t)
    /\ t[i] = ":"
    /\ t[i + 1] \in Digit
    /\ t[i + 2] \in Digit
    /\ \/ t[i + 3] = ":"
       \/ /\ i + 4 <= Len(t)
          /\ t[i + 3] \in Upper
          /\ t[i + 4] = ":"

\* $ without re.MULTILINE: the end, or just before a final newline
DollarAt(t, i) == i = Len(t) + 1 \/ (i = Len(t) /\ t[i] = NL)

\* (?=:\d{2}[A-Z]?:|$)
LookaheadAt(t, i) == TagAt(t, i) \/ DollarAt(t, i)

Min(S) == CHOOSE x \in S : \A y \in S : x <= y

\* the first position at or after i where the lookahead holds
LazyEnd(t, i) ==
    IF i > Len(t) THEN i ELSE Min({j \in i..(Len(t) + 1) : LookaheadAt(t, j)})

RECURSIVE MatchFrom(_, _, _, _, _)
MatchFrom(p, k, t, i, g) ==
    IF k > Len(p) THEN [ok |-> TRUE, end |-> i, g |-> g]
    ELSE LET e == p[k]
         IN  CASE e.op = "lit" ->
                    IF HasAt(t, i, e.s)
                    THEN MatchFrom(p, k + 1, t, i + Len(e.s), g)
                    ELSE NoMatch
               [] e.op = "opt" ->
                    LET with == IF HasAt(t, i, e.s)
                                THEN MatchFrom(p, k + 1, t, i + Len(e.s), g)
                                ELSE NoMatch
                    IN  IF with.ok THEN with ELSE MatchFrom(p, k + 1, t, i, g)
               [] e.op = "rep" ->
                    IF /\ i + e.n - 1 <= Len(t)
                       /\ \A j \in i..(i + e.n - 1) : InClass(t[j], e.cls)
                    THEN MatchFrom(p, k + 1, t, i + e.n,
                                   Append(g, Slice(t, i, i + e.n)))
                    ELSE NoMatch
               [] e.op = "plus" ->
                    \* every run of the source is followed by a character
                    \* outside its class or ends the pattern: only the
                    \* longest run can match
                    LET j == RunEnd(t, i, e.cls)
                    IN  IF j > i
                        THEN MatchFrom(p, k + 1, t, j, Append(g, Slice(t, i, j)))
                        ELSE NoMatch
               [] e.op = "lazy" ->
                    \* at least one character, then the shortest extension
                    \* that reaches the lookahead
                    IF i > Len(t) THEN NoMatch
                    ELSE LET j == LazyEnd(t, i + 1)
                         IN  MatchFrom(p, k + 1, t, j, Append(g, Slice(t, i, j)))

\* re.match(p, t)
match(p, t) == MatchFrom(p, 1, t, 1, <<>>)

\* re.search(p, t) from position i: the leftmost match
SearchFrom(p, t, i) ==
    LET starts == {j \in i..(Len(t) + 1) : MatchFrom(p, 1, t, j, <<>>).ok}
    IN  IF starts = {} THEN NoMatch ELSE MatchFrom(p, 1, t, Min(starts), <<>>)

search(p, t) == SearchFrom(p, t, 1)

\* re.finditer(p, t): the non-overlapping matches from left to right
RECURSIVE FindAll(_, _, _)
FindAll(p, t, i) ==
    LET m == SearchFrom(p, t, i)
    IN  IF m.ok THEN <<m>> \o FindAll(p, t, m.end) ELSE <<>>

finditer(p, t) == FindAll(p, t, 1)

-----------------------------------------------------------------------------
(* Header decoders                                                         *)

AlNum == Upper \cup Digit

\* r"F(?P<app_id>\d{2})(?P<lt_address>[A-Z0-9]{12})(?P<session>\d{4})(?P<sequence>\d{6})"
pattern_basic ==
    <<Lit(<<"F">>), Rep(In(Digit), 2), Rep(In(AlNum), 12), Rep(In(Digit), 4),
      Rep(In(Digit), 6)>>

parse_basic_header(header) ==
    LET m == match(pattern_basic, header)
    IN  IF m.ok
        THEN [Application_Id |-> <<"F">>,
              Service_Id |-> m.g[1],
              LT_Address |-> m.g[2],
              Session |-> m.g[3],
              Sequence_No |-> m.g[4]]
        ELSE EmptyDict

\* r"I(?P<mt>\d{3})(?P<recipient>[A-Z0-9]{12})(?P<priority>[A-Z])"
pattern_input ==
    <<Lit(<<"I">>), Rep(In(Digit), 3), Rep(In(AlNum), 12), Rep(In(Upper), 1)>>

\* r"O(?P<mt>\d{3})(?P<input_time>\d{10})(?P<mir>[A-Z0-9]{28})(?P<priority>[A-Z])"
pattern_output ==
    <<Lit(<<"O">>), Rep(In(Digit), 3), Rep(In(Digit), 10), Rep(In(AlNum), 28),
      Rep(In(Upper), 1)>>

parse_application_header(header) ==
    IF startswith(header, <<"I">>)
    THEN LET m == match(pattern_input, header)
         IN  IF m.ok
             THEN [IO_ID |-> <<"I">>,
                   MT |-> m.g[1],
                   Recipient |-> m.g[2],
                   Message_Priority |-> m.g[3]]
             ELSE EmptyDict
    ELSE IF startswith(header, <<"O">>)
    THEN LET m == match(pattern_output, header)
         IN  IF m.ok
             THEN [IO_ID |-> <<"O">>,
                   MT |-> m.g[1],
                   Input_Time |-> m.g[2],
                   MIR |-> m.g[3],
                   Message_Priority |-> m.g[4]]
             ELSE EmptyDict
    ELSE EmptyDict

\* r"{NNN:([^}]+)}" for a sub-tag NNN of block 3
pattern_subtag(tag) == <<Lit(<<"{">> \o tag \o <<":">>), Plus(NotIn({"}"})), Lit(<<"}">>)>>

\* one lookup of parse_user_header
subtag_lookup(header, tag, key) ==
    LET m == search(pattern_subtag(tag), header)
    IN  IF m.ok THEN key :> m.g[1] ELSE EmptyDict

parse_user_header(header) ==
    LET r1 == Update(EmptyDict, subtag_lookup(header, <<"1", "0", "8">>, "MUR"))
        r2 == Update(r1, subtag_lookup(header, <<"1", "1", "3">>, "Bank_Priority_Code"))
        r3 == Update(r2, subtag_lookup(header, <<"1", "1", "1">>, "Service_Type_Identifier"))
        r4 == Update(r3, subtag_lookup(header, <<"1", "2", "1">>,
                                       "UniqueEndToEndTransactionReference_121"))
    IN  r4

-----------------------------------------------------------------------------
(* Field decoders                                                          *)

\* r":13C:/(?P<code>[^/]+)/(?P<time>\d{4})(?P<sign>[+-])(?P<offset>\d{4})"
pattern_13C ==
    <<Lit(<<":", "1", "3", "C", ":", "/">>), Plus(NotIn({"/"})), Lit(<<"/">>),
      Rep(In(Digit), 4), Rep(In({"+", "-"}), 1), Rep(In(Digit), 4)>>

\* f"{s[:2]}:{s[2:]}:00"
clock(s) == SubSeq(s, 1, 2) \o <<":">> \o SubSeq(s, 3, Len(s)) \o <<":", "0", "0">>

time_indication(m) ==
    [F13C_Code |-> m.g[1],
     F13C_Time |-> clock(m.g[2]),
     F13C_Sign |-> m.g[3],
     F13C_Offset |-> clock(m.g[4])]

\* results.insert(0, ...): the last occurrence first
parse_field_13c_last_first(text) ==
    LET ms == finditer(pattern_13C, text)
    IN  [k \in 1..Len(ms) |-> time_indication(ms[Len(ms) + 1 - k])]

parse_field_13c(text) ==
    LET ms == finditer(pattern_13C, text)
    IN  [k \in 1..Len(ms) |-> time_indication(ms[k])]

parse_field_50f(value) ==
    LET lines == split(strip(value), NL)
        r1 == Update(EmptyDict, "F50F_PartyIdentifier" :> lines[1])
        r2 == IF Len(lines) > 1
              THEN Update(r1, "F50F_NameAddr" :> join(NL, Tail(lines)))
              ELSE r1
    IN  r2

\* the decimal comma is kept
parse_amount_keep(amount_str) == amount_str

parse_amount(amount_str) == replace(amount_str, ",", ".")

DigitChar == <<"0", "1", "2", "3", "4", "5", "6", "7", "8", "9">>

DigitVal(ch) == CHOOSE n \in 0..9 : DigitChar[n + 1] = ch

\* int(s) for a string of decimal digits
RECURSIVE int(_)
int(s) ==
    IF s = <<>> THEN 0
    ELSE 10 * int(SubSeq(s, 1, Len(s) - 1)) + DigitVal(s[Len(s)])

\* str(n) for n >= 0: no padding
RECURSIVE str(_)
str(n) ==
    IF n < 10 THEN <<DigitChar[n + 1]>>
    ELSE str(n \div 10) \o <<DigitChar[(n % 10) + 1]>>

\* the pivot year taken as 19xx
century_below_50(year) == IF year < 50 THEN 2000 + year ELSE 1900 + year

century(year) == IF year <= 50 THEN 2000 + year ELSE 1900 + year

parse_date(date_str) ==
    IF Len(date_str) = 6
    THEN LET year == century(int(SubSeq(date_str, 1, 2)))
             month == SubSeq(date_str, 3, 4)
             day == SubSeq(date_str, 5, 6)
         IN  str(year) \o <<"-">> \o month \o <<"-">> \o day
    ELSE date_str

-----------------------------------------------------------------------------
(* Block 4: parse_text_block                                               *)

\* ":NN:" or ":NNL:" for a tag given as its characters
Delim(tag) == <<":">> \o tag \o <<":">>

\* r":TAG:([^\s:]+)"
pattern_token(tag) == <<Lit(Delim(tag)), Plus(NotIn(WS \cup {":"}))>>

\* r":TAG:([^:]+)"
pattern_scalar(tag) == <<Lit(Delim(tag)), Plus(NotIn({":"}))>>

\* r":TAG:(.+?)(?=:\d{2}[A-Z]?:|$)" with re.DOTALL
pattern_multiline(tag) == <<Lit(Delim(tag)), LazyToTag>>

\* r":32A:(\d{6})([A-Z]{3})([\d,]+)"
pattern_32A ==
    <<Lit(<<":", "3", "2", "A", ":">>), Rep(In(Digit), 6), Rep(In(Upper), 3),
      Plus(In(Digit \cup {","}))>>

\* r":33B:([A-Z]{3})([\d,]+)"
pattern_33B ==
    <<Lit(<<":", "3", "3", "B", ":">>), Rep(In(Upper), 3), Plus(In(Digit \cup {","}))>>

\* r":59A?:(.+?)(?=:\d{2}[A-Z]?:|$)" with re.DOTALL
pattern_59 == <<Lit(<<":", "5", "9">>), Opt(<<"A">>), Lit(<<":">>), LazyToTag>>

\* r":71F:([A-Z]{3})([\d,]+)"
pattern_71F ==
    <<Lit(<<":", "7", "1", "F", ":">>), Rep(In(Upper), 3), Plus(In(Digit \cup {","}))>>

\* the value stored under a repeatable tag is a dict or a list: the type of
\* a Python value is part of the value
as_dict(d) == [type |-> "dict", value |-> d]

as_list(l) == [type |-> "list", value |-> l]

\* a list whatever the number of occurrences
always_list(items) == as_list(items)

\* "if only one, store as dict, otherwise as list"
single_or_list(items) == IF Len(items) = 1 THEN as_dict(items[1]) ELSE as_list(items)

\* a field decoded by one search whose only group is stripped
field_stripped(text, pattern, key, sub) ==
    LET m == search(pattern, text)
    IN  IF m.ok THEN key :> (sub :> strip(m.g[1])) ELSE EmptyDict

field_13C(text) ==
    LET time_indications == parse_field_13c(text)
    IN  IF time_indications # <<>>
        THEN "A1" :> [F13C |-> single_or_list(time_indications)]
        ELSE EmptyDict

field_32A(text) ==
    LET m == search(pattern_32A, text)
    IN  IF m.ok
        THEN "F32A" :> [F32A_Date |-> parse_date(m.g[1]),
                        F32A_Curr |-> m.g[2],
                        F32A_Amount |-> parse_amount(m.g[3])]
        ELSE EmptyDict

field_33B(text) ==
    LET m == search(pattern_33B, text)
    IN  IF m.ok
        THEN "F33B" :> [F33B_Curr |-> m.g[1], F33B_Amount |-> parse_amount(m.g[2])]
        ELSE EmptyDict

field_50F(text) ==
    LET m == search(pattern_multiline(<<"5", "0", "F">>), text)
    IN  IF m.ok THEN "F50F" :> parse_field_50f(m.g[1]) ELSE EmptyDict

\* 50K is attempted whenever the decode of 50F gave no record
field_50K_unless_decoded(text) ==
    IF field_50F(text) = EmptyDict
    THEN field_stripped(text, pattern_multiline(<<"5", "0", "K">>),
                        "F50K", "F50K_OrderingCustomer")
    ELSE EmptyDict

field_50K(text) ==
    IF ~Contains(text, <<":", "5", "0", "F", ":">>)
    THEN field_stripped(text, pattern_multiline(<<"5", "0", "K">>),
                        "F50K", "F50K_OrderingCustomer")
    ELSE EmptyDict

\* the account-id / name-address split of 52D and 59
account_split(value, acc_key, name_key) ==
    LET lines == split1(strip(value), NL)
    IN  IF startswith(lines[1], <<"/">>)
        THEN IF Len(lines) > 1
             THEN (acc_key :> lines[1]) @@ (name_key :> lines[2])
             ELSE acc_key :> lines[1]
        ELSE name_key :> strip(value)

field_52D(text) ==
    LET m == search(pattern_multiline(<<"5", "2", "D">>), text)
    IN  IF m.ok
        THEN "F52D" :> account_split(m.g[1], "F52D_AccountId", "F52D_NameAddr")
        ELSE EmptyDict

field_54A(text) ==
    LET m == search(pattern_multiline(<<"5", "4", "A">>), text)
    IN  IF m.ok
        THEN LET lines == split1(strip(m.g[1]), NL)
             IN  "F54A" :>
                   IF startswith(lines[1], <<"/">>)
                   THEN IF Len(lines) > 1
                        THEN ("F54A_AccountId" :> lines[1]) @@ ("F54A_BIC" :> lines[2])
                        ELSE "F54A_AccountId" :> lines[1]
                   ELSE "F54A_BIC" :> lines[1]
        ELSE EmptyDict

\* for suffix in suffixes: the first suffix whose pattern matches, then break
RECURSIVE first_suffix(_, _, _, _, _, _)
first_suffix(text, num, name, label, suffixes, k) ==
    IF k > Len(suffixes) THEN EmptyDict
    ELSE LET suffix == suffixes[k]
             m == search(pattern_multiline(num \o <<suffix>>), text)
             key == name \o suffix
         IN  IF m.ok
             THEN key :> ((key \o label) :> strip(m.g[1]))
             ELSE first_suffix(text, num, name, label, suffixes, k + 1)

\* the loop without its break: every suffix that matches is stored
field_56_no_break(text) ==
    UpdateAll(EmptyDict,
              [k \in 1..3 |->
                  first_suffix(text, <<"5", "6">>, "F56", "_Intermediary",
                               <<<<"A", "C", "D">>[k]>>, 1)])

\* one search for :56[ACD]: the option that stands first in the text
field_56_first_in_text(text) ==
    LET suffixes == <<"A", "C", "D">>
        ms == [k \in 1..3 |-> search(pattern_multiline(<<"5", "6", suffixes[k]>>), text)]
        found == {k \in 1..3 : ms[k].ok}
    IN  IF found = {} THEN EmptyDict
        ELSE LET k == CHOOSE k \in found : \A j \in found : ms[k].end <= ms[j].end
                 key == "F56" \o suffixes[k]
             IN  key :> ((key \o "_Intermediary") :> strip(ms[k].g[1]))

field_56(text) ==
    first_suffix(text, <<"5", "6">>, "F56", "_Intermediary", <<"A", "C", "D">>, 1)

field_57(text) ==
    first_suffix(text, <<"5", "7">>, "F57", "_AccountWithInstitution",
                 <<"A", "B", "C", "D">>, 1)

field_59(text) ==
    LET m == search(pattern_59, text)
    IN  IF m.ok
        THEN "F59" :> account_split(m.g[1], "F59_ACC_ID_Party", "F59_Name_addr_Party")
        ELSE EmptyDict

charge(m) == [F71F_Curr |-> m.g[1], F71F_Amount |-> parse_amount(m.g[2])]

field_71F(text) ==
    LET ms == finditer(pattern_71F, text)
        charges == [k \in 1..Len(ms) |-> charge(ms[k])]
    IN  IF charges # <<>>
        THEN "A3" :> [F71F |-> single_or_list(charges)]
        ELSE EmptyDict

\* the assignments to result["A"], in the order of the source
text_block_fields(text) ==
    <<field_stripped(text, pattern_token(<<"2", "0">>), "F20", "F20_TRN"),
      field_13C(text),
      field_stripped(text, pattern_token(<<"2", "3", "B">>), "F23B", "F23B_BankOpCode"),
      field_stripped(text, pattern_scalar(<<"2", "3", "E">>), "F23E", "F23E_InstructionCode"),
      field_stripped(text, pattern_scalar(<<"2", "6", "T">>), "F26T", "F26T_TransType"),
      field_32A(text),
      field_33B(text),
      field_stripped(text, pattern_scalar(<<"3", "6">>), "F36", "F36_ExchangeRate"),
      field_50F(text),
      field_50K(text),
      field_stripped(text, pattern_scalar(<<"5", "1", "A">>), "F51A", "F51A_SendingInstitution"),
      field_52D(text),
      field_stripped(text, pattern_scalar(<<"5", "2", "A">>), "F52A", "F52A_BIC"),
      field_stripped(text, pattern_scalar(<<"5", "3", "B">>), "F53B", "F53B_Account"),
      field_54A(text),
      field_56(text),
      field_57(text),
      field_59(text),
      field_stripped(text, pattern_multiline(<<"7", "0">>), "F70", "F70_PaymentDetails"),
      field_stripped(text, pattern_scalar(<<"7", "1", "A">>), "F71A", "F71A_ChargesCode"),
      field_71F(text),
      field_stripped(text, pattern_scalar(<<"7", "1", "G">>), "F71G", "F71G_ReceiverCharges"),
      field_stripped(text, pattern_multiline(<<"7", "2">>), "F72", "F72_General"),
      field_stripped(text, pattern_multiline(<<"7", "7", "B">>), "F77B", "F77B_Narrative")>>

parse_text_block(text) == [A |-> UpdateAll(EmptyDict, text_block_fields(text))]

-----------------------------------------------------------------------------
(* mt103_to_json: the block splitter and the record assembler              *)

\* r"{N:([^}]+)}" for block N
pattern_block(n) ==
    <<Lit(<<"{", DigitChar[n + 1], ":">>), Plus(NotIn({"}"})), Lit(<<"}">>)>>

\* \s*-} at position e: the position after it, 0 when it does not match
TerminatorAt(t, e) ==
    LET d == RunEnd(t, e, In(WS))
    IN  IF HasAt(t, d, <<"-", "}">>) THEN d + 2 ELSE 0

\* the first e at or after i with \s*-} at e, Len(t) + 1 when there is none
BodyEnd(t, i) ==
    LET ends == {e \in i..Len(t) : TerminatorAt(t, e) # 0}
    IN  IF ends = {} THEN Len(t) + 1 ELSE Min(ends)

\* (.+?)\s*-} with the body starting at s, for the leading \s* giving back
\* one character at a time down to position lo
RECURSIVE Block4From(_, _, _)
Block4From(t, s, lo) ==
    IF s < lo THEN NoMatch
    ELSE LET e == IF s > Len(t) THEN Len(t) + 1 ELSE BodyEnd(t, s + 1)
         IN  IF e <= Len(t)
             THEN [ok |-> TRUE, end |-> TerminatorAt(t, e), g |-> <<Slice(t, s, e)>>]
             ELSE Block4From(t, s - 1, lo)

\* r"{4:\s*(.+?)\s*-}" with re.DOTALL, matched at position i
Block4At(t, i) ==
    IF HasAt(t, i, <<"{", "4", ":">>)
    THEN Block4From(t, RunEnd(t, i + 3, In(WS)), i + 3)
    ELSE NoMatch

SearchBlock4(t, i) ==
    LET starts == {j \in i..Len(t) : Block4At(t, j).ok}
    IN  IF starts = {} THEN NoMatch ELSE Block4At(t, Min(starts))

\* the re.search that locates block n
locate(n, message) ==
    IF n = 4 THEN SearchBlock4(message, 1) ELSE search(pattern_block(n), message)

trailer(content) == "Trailer" :> content

\* what the content of block n adds to result["MT103"]
decode(n, content) ==
    CASE n = 1 -> parse_basic_header(content)
      [] n = 2 -> parse_application_header(content)
      [] n = 3 -> parse_user_header(content)
      [] n = 4 -> parse_text_block(content)
      [] n = 5 -> trailer(content)

\* the decoded record replaces the document instead of updating it
block_step_replace(n, message, doc) ==
    LET m == locate(n, message)
    IN  IF m.ok THEN decode(n, m.g[1]) ELSE doc

\* a block that is not found is decoded as the empty string
block_step_default(n, message, doc) ==
    LET m == locate(n, message)
    IN  Update(doc, decode(n, IF m.ok THEN m.g[1] ELSE <<>>))

\* "match = re.search(...); if match: ... result["MT103"].update(...)"
block_step(n, message, doc) ==
    LET m == locate(n, message)
    IN  IF m.ok THEN Update(doc, decode(n, m.g[1])) ELSE doc

RECURSIVE blocks_upto(_, _)
blocks_upto(n, message) ==
    IF n = 0 THEN EmptyDict ELSE block_step(n, message, blocks_upto(n - 1, message))

mt103_to_json(message) == [MT103 |-> blocks_upto(5, strip(message))]

-----------------------------------------------------------------------------
(* Messages.  An input is the list of parts a message is built from, put   *)
(* together as generate_mt103_sample does; an absent block is <<>>, a      *)
(* present one is a one-element sequence holding the block's parts.  A     *)
(* field is [tag, parts]; an amount is two parts, the digits before and    *)
(* after the decimal comma.                                                *)

T13C == <<"1", "3", "C">>

T32A == <<"3", "2", "A">>

T33B == <<"3", "3", "B">>

T71F == <<"7", "1", "F">>

\* f"{amount:.2f}".replace('.', ',')
amount_text(whole, cents) == whole \o <<",">> \o cents

\* the value of a field as the generator writes it
value_text(f) ==
    CASE f.tag = T13C /\ Len(f.parts) = 4 ->
           \* f":13C:/{code}/{time_val}{sign}{offset}"
           <<"/">> \o f.parts[1] \o <<"/">> \o f.parts[2] \o f.parts[3] \o f.parts[4]
      [] f.tag = T32A ->
           \* f":32A:{date_val}{currency1}{amount1}"
           f.parts[1] \o f.parts[2] \o amount_text(f.parts[3], f.parts[4])
      [] f.tag \in {T33B, T71F} ->
           \* f":71F:{charge_curr}{charge_amt}"
           f.parts[1] \o amount_text(f.parts[2], f.parts[3])
      [] OTHER ->
           \* the lines of the value
           join(NL, f.parts)

\* f":{tag}:{value}"
field_text(f) == Delim(f.tag) \o value_text(f)

RECURSIVE concat(_)
concat(ss) == IF ss = <<>> THEN <<>> ELSE Head(ss) \o concat(Tail(ss))

\* f"{{108:{mur}}}"
group_text(gr) == <<"{">> \o gr.tag \o <<":">> \o gr.val \o <<"}">>

block1_text(in) ==
    IF in.b1 = <<>> THEN <<>> ELSE <<"{", "1", ":">> \o in.b1[1] \o <<"}">>

block2_text(in) ==
    IF in.b2 = <<>> THEN <<>> ELSE <<"{", "2", ":">> \o in.b2[1] \o <<"}">>

block3_text(in) ==
    IF in.b3 = <<>> THEN <<>>
    ELSE <<"{", "3", ":">>
         \o concat([k \in 1..Len(in.b3[1]) |-> group_text(in.b3[1][k])])
         \o <<"}">>

text_block(fields) == join(NL, [k \in 1..Len(fields) |-> field_text(fields[k])])

block4_text(in) ==
    IF in.b4 = <<>> THEN <<>>
    ELSE <<"{", "4", ":", NL>> \o text_block(in.b4[1]) \o <<NL, "-", "}">>

block5_text(in) ==
    IF in.b5 = <<>> THEN <<>>
    ELSE <<"{", "5", ":">>
         \o concat([k \in 1..Len(in.b5[1]) |-> group_text(in.b5[1][k])])
         \o <<"}">>

\* block1 + block2 + block3 + block4 + block5, and the newline that ends
\* the file the message is read from
message_text(in) ==
    block1_text(in) \o block2_text(in) \o block3_text(in) \o block4_text(in)
    \o block5_text(in) \o in.eof

-----------------------------------------------------------------------------
(* One call of mt103_to_json, a block at a time                            *)

None == <<>>

InitCall(inputs) ==
    /\ input \in inputs
    /\ mt103_message = message_text(input)
    /\ blocks = EmptyDict
    /\ result = None
    /\ pc = "start"
    /\ fn = "mt103_to_json"
    /\ arg = None
    /\ ret = None

\* lines 307-314
Begin ==
    /\ pc = "start"
    /\ result' = [MT103 |-> EmptyDict]
    /\ mt103_message' = strip(mt103_message)
    /\ blocks' = EmptyDict
    /\ pc' = "block1"
    /\ UNCHANGED <<input, fn, arg, ret>>

\* the search and the "if match:" body of block n
SplitBlock(n) ==
    /\ LET m == locate(n, mt103_message)
       IN  blocks' = IF m.ok THEN Update(blocks, n :> m.g[1]) ELSE blocks
    /\ result' = [MT103 |-> block_step(n, mt103_message, result.MT103)]
    /\ UNCHANGED <<input, mt103_message, fn, arg, ret>>

Block1 ==
    /\ pc = "block1"
    /\ SplitBlock(1)
    /\ pc' = "block2"

Block2 ==
    /\ pc = "block2"
    /\ SplitBlock(2)
    /\ pc' = "block3"

Block3 ==
    /\ pc = "block3"
    /\ SplitBlock(3)
    /\ pc' = "block4"

Block4 ==
    /\ pc = "block4"
    /\ SplitBlock(4)
    /\ pc' = "block5"

Block5 ==
    /\ pc = "block5"
    /\ SplitBlock(5)
    /\ pc' = "return"

\* return result
Return ==
    /\ pc = "return"
    /\ ret' = result
    /\ pc' = "done"
    /\ UNCHANGED <<input, mt103_message, blocks, result, fn, arg>>

Next == Begin \/ Block1 \/ Block2 \/ Block3 \/ Block4 \/ Block5 \/ Return

-----------------------------------------------------------------------------
(* The messages of the specifications                                      *)

\* the most sub-tag groups in block 3 and the most groups in block 5
MaxGroups == 2

Field(tag, parts) == [tag |-> tag, parts |-> parts]

Group(tag, val) == [tag |-> tag, val |-> val]

\* the elements of pool at the indices of S, in the order of the pool
RECURSIVE Pick(_, _)
Pick(pool, S) ==
    IF S = {} THEN <<>> ELSE <<pool[Min(S)]>> \o Pick(pool, S \ {Min(S)})

\* the non-empty selections of at most n elements of pool, each as an option
Selections(pool, n) ==
    {<<Pick(pool, S)>> : S \in {T \in SUBSET (1..Len(pool)) : T # {} /\ Cardinality(T) <= n}}

\* "F01TESTBANK0XXX0001000001"
ValidBasic ==
    <<"F", "0", "1", "T", "E", "S", "T", "B", "A", "N", "K", "0", "X", "X", "X",
      "0", "0", "0", "1", "0", "0", "0", "0", "0", "1">>

\* "I103TESTBANK1XXXN"
ValidInput ==
    <<"I", "1", "0", "3", "T", "E", "S", "T", "B", "A", "N", "K", "1", "X", "X",
      "X", "N">>

\* "TEST-REF-001"
TestMUR == <<"T", "E", "S", "T", "-", "R", "E", "F", "-", "0", "0", "1">>

\* "aaaaaaaa-bbbb-4ccc-8ddd-eeeeeeeeeeee"
TestUETR ==
    <<"a", "a", "a", "a", "a", "a", "a", "a", "-", "b", "b", "b", "b", "-", "4",
      "c", "c", "c", "-", "8", "d", "d", "d", "-", "e", "e", "e", "e", "e", "e",
      "e", "e", "e", "e", "e", "e">>

\* the sub-tag groups of block 3, in the order the generator writes them
SubTagPool ==
    <<Group(<<"1", "0", "8">>, TestMUR),
      Group(<<"1", "1", "3">>, <<"N", "O", "R", "M">>),
      Group(<<"1", "1", "1">>, <<"0", "0", "1">>),
      Group(<<"1", "2", "1">>, TestUETR)>>

\* f"{{5:{{MAC:{mac}}}{{CHK:{chk}}}}}"
TrailerPool ==
    <<Group(<<"M", "A", "C">>, <<"0", "0", "0", "0", "0", "0", "0", "0">>),
      Group(<<"C", "H", "K">>,
            <<"2", "4", "8", "5", "7", "F", "4", "5", "9", "9", "E", "7">>)>>

\* ":20:TEST-001", ":23B:CRED", ":32A:240101USD10000,00", ":59:/123456" with
\* the line "BEN NAME", ":71A:SHA"
SimpleBody ==
    <<Field(<<"2", "0">>, <<<<"T", "E", "S", "T", "-", "0", "0", "1">>>>),
      Field(<<"2", "3", "B">>, <<<<"C", "R", "E", "D">>>>),
      Field(T32A, <<<<"2", "4", "0", "1", "0", "1">>, <<"U", "S", "D">>,
                    <<"1", "0", "0", "0", "0">>, <<"0", "0">>>>),
      Field(<<"5", "9">>, <<<<"/", "1", "2", "3", "4", "5", "6">>,
                            <<"B", "E", "N", " ", "N", "A", "M", "E">>>>),
      Field(<<"7", "1", "A">>, <<<<"S", "H", "A">>>>)>>

\* an absent block, a block with no content, a well-formed block
Inputs ==
    [b1 : {<<>>, <<<<>>>>, <<ValidBasic>>},
     b2 : {<<>>, <<ValidInput>>},
     b3 : {<<>>} \cup Selections(SubTagPool, MaxGroups),
     b4 : {<<>>, <<SimpleBody>>},
     b5 : {<<>>} \cup Selections(TrailerPool, MaxGroups),
     eof : {<<>>, <<NL>>}]

Init == InitCall(Inputs)

Spec == Init /\ [][Next]_vars

-----------------------------------------------------------------------------
(* Properties of mt103_to_json                                             *)

Has(d, k) == k \in DOMAIN d

Restrict(d, K) == [k \in (DOMAIN d) \cap K |-> d[k]]

Returned == pc = "done"

Block1Keys == {"Application_Id", "Service_Id", "LT_Address", "Session", "Sequence_No"}

Block2Keys == {"IO_ID", "MT", "Recipient", "Input_Time", "MIR", "Message_Priority"}

Block3Keys ==
    {"MUR", "Bank_Priority_Code", "Service_Type_Identifier",
     "UniqueEndToEndTransactionReference_121"}

\* the end-to-end message of the specification, section 8
SimpleMessage ==
    <<"{", "1", ":", "F", "0", "1", "T", "E", "S", "T", "B", "A", "N", "K",
      "0", "X", "X", "X", "0", "0", "0", "1", "0", "0", "0", "0", "0", "1", "}",
      "{", "2", ":", "I", "1", "0", "3", "T", "E", "S", "T", "B", "A", "N", "K",
      "1", "X", "X", "X", "N", "}", "{", "4", ":", "\n", ":", "2", "0", ":", "T",
      "E", "S", "T", "-", "0", "0", "1", "\n", ":", "2", "3", "B", ":", "C", "R",
      "E", "D", "\n", ":", "3", "2", "A", ":", "2", "4", "0", "1", "0", "1", "U",
      "S", "D", "1", "0", "0", "0", "0", ",", "0", "0", "\n", ":", "5", "9", ":",
      "/", "1", "2", "3", "4", "5", "6", "\n", "B", "E", "N", " ", "N", "A", "M",
      "E", "\n", ":", "7", "1", "A", ":", "S", "H", "A", "\n", "-", "}">>

\* C1: the end-to-end message of section 8 is returned with F20_TRN =
\* "TEST-001", F32A_Date = "2024-01-01", F32A_Curr = "USD", F32A_Amount =
\* "10000.00" and F71A_ChargesCode = "SHA".
C1_EndToEnd ==
    (Returned /\ mt103_message = SimpleMessage) =>
        /\ Has(ret.MT103, "A")
        /\ LET A == ret.MT103.A
           IN  /\ {"F20", "F32A", "F71A"} \subseteq DOMAIN A
               /\ A.F20.F20_TRN = <<"T", "E", "S", "T", "-", "0", "0", "1">>
               /\ A.F32A.F32A_Date = <<"2", "0", "2", "4", "-", "0", "1", "-", "0", "1">>
               /\ A.F32A.F32A_Curr = <<"U", "S", "D">>
               /\ A.F32A.F32A_Amount = <<"1", "0", "0", "0", "0", ".", "0", "0">>
               /\ A.F71A.F71A_ChargesCode = <<"S", "H", "A">>

C1_Witness ==
    /\ Returned
    /\ mt103_message = SimpleMessage
    /\ Has(ret.MT103, "A")
    /\ Has(ret.MT103.A, "F32A")

\* the key parse_user_header stores a sub-tag under
SubTagKey(tag) ==
    CASE tag = <<"1", "0", "8">> -> "MUR"
      [] tag = <<"1", "1", "3">> -> "Bank_Priority_Code"
      [] tag = <<"1", "1", "1">> -> "Service_Type_Identifier"
      [] tag = <<"1", "2", "1">> -> "UniqueEndToEndTransactionReference_121"

\* the text of a block of groups between its opening and its outermost
\* closing brace
GroupsText(groups) == concat([k \in 1..Len(groups) |-> group_text(groups[k])])

\* C6: a message with a block 3 {3:{108:X}...} is returned with MUR = X, and
\* likewise for the sub-tags 113, 111 and 121; the user-header decoder is
\* handed the content up to the outermost closing brace of block 3.
C6_UserHeaderDecoded ==
    (Returned /\ input.b3 # <<>>) =>
        /\ Has(blocks, 3)
        /\ blocks[3] = GroupsText(input.b3[1])
        /\ \A k \in 1..Len(input.b3[1]) :
              LET gr == input.b3[1][k]
              IN  /\ Has(ret.MT103, SubTagKey(gr.tag))
                  /\ ret.MT103[SubTagKey(gr.tag)] = gr.val

\* C7: when block 5 is present, Trailer is the whole content between "{5:"
\* and the outermost closing brace of block 5, so "{MAC:m}{CHK:c}" for
\* {5:{MAC:m}{CHK:c}}.
C7_TrailerVerbatim ==
    (Returned /\ input.b5 # <<>>) =>
        /\ Has(ret.MT103, "Trailer")
        /\ ret.MT103.Trailer = GroupsText(input.b5[1])

BaseKeys == Block1Keys \cup Block2Keys \cup {"A"}

\* the inputs that differ from in only in blocks 3 and 5
WithBlocks35(in) ==
    {in2 \in Inputs : /\ in2.b1 = in.b1
                      /\ in2.b2 = in.b2
                      /\ in2.b4 = in.b4
                      /\ in2.eof = in.eof}

\* C8: a message without blocks 3 and 5 is returned with no user-header key
\* and no Trailer key, and with the same block-1 keys, block-2 keys and
\* fields section as the same message with a block 3 and a block 5.
C8_OptionalBlocks ==
    (Returned /\ input.b3 = <<>> /\ input.b5 = <<>>) =>
        /\ (DOMAIN ret.MT103) \cap (Block3Keys \cup {"Trailer"}) = {}
        /\ \A in2 \in WithBlocks35(input) :
              Restrict(mt103_to_json(message_text(in2)).MT103, BaseKeys)
                  = Restrict(ret.MT103, BaseKeys)

C8_Witness ==
    /\ Returned
    /\ input.b3 = <<>>
    /\ input.b5 = <<>>
    /\ input.b1 = <<ValidBasic>>
    /\ input.b2 = <<ValidInput>>
    /\ input.b4 # <<>>
    /\ BaseKeys \ {"Input_Time", "MIR"} \subseteq DOMAIN ret.MT103
    /\ \E in2 \in WithBlocks35(input) : in2.b3 # <<>> /\ in2.b5 # <<>>

\* a block can be located when it is written with some content
Written(b) == b # <<>> /\ b[1] # <<>>

\* C9: the call returns a document with the root key MT103; a block 1, 2 or
\* 4 that cannot be located leaves no key of its own, and every located
\* block has its keys.
C9_MissingBlocks ==
    Returned =>
        /\ DOMAIN ret = {"MT103"}
        /\ LET doc == ret.MT103
           IN  /\ IF Written(input.b1)
                  THEN Restrict(doc, Block1Keys)
                         = [Application_Id |-> <<"F">>,
                            Service_Id |-> SubSeq(input.b1[1], 2, 3),
                            LT_Address |-> SubSeq(input.b1[1], 4, 15),
                            Session |-> SubSeq(input.b1[1], 16, 19),
                            Sequence_No |-> SubSeq(input.b1[1], 20, 25)]
                  ELSE (DOMAIN doc) \cap Block1Keys = {}
               /\ IF Written(input.b2)
                  THEN Restrict(doc, Block2Keys)
                         = [IO_ID |-> <<"I">>,
                            MT |-> SubSeq(input.b2[1], 2, 4),
                            Recipient |-> SubSeq(input.b2[1], 5, 16),
                            Message_Priority |-> SubSeq(input.b2[1], 17, 17)]
                  ELSE (DOMAIN doc) \cap Block2Keys = {}
               /\ IF Written(input.b4)
                  THEN Has(doc, "A") /\ Has(doc.A, "F20")
                  ELSE ~Has(doc, "A")

C9_Witness ==
    /\ Returned
    /\ ~Written(input.b1)
    /\ input.b2 # <<>>
    /\ input.b4 = <<>>
    /\ Has(ret.MT103, "IO_ID")
    /\ ~Has(ret.MT103, "A")

-----------------------------------------------------------------------------
(* Repeatable tags: messages whose block 4 is any sequence of at most      *)
(* MaxFields fields of RepeatPool                                          *)

MaxFields == 3

\* the sequences of at most n elements of S
SeqsUpTo(S, n) == UNION {[1..k -> S] : k \in 0..n}

\* a message with well-formed blocks 1 and 2 and the given fields
BodyInputs(bodies) ==
    [b1 : {<<ValidBasic>>},
     b2 : {<<ValidInput>>},
     b3 : {<<>>},
     b4 : {<<body>> : body \in bodies},
     b5 : {<<>>},
     eof : {<<>>}]

\* ":13C:/CLSTIME/0915+0100", ":13C:/RNCTIME/1012-0500", ":71F:USD100,00",
\* ":71F:EUR50,00", ":20:REF1"
RepeatPool ==
    {Field(T13C, <<<<"C", "L", "S", "T", "I", "M", "E">>, <<"0", "9", "1", "5">>,
                   <<"+">>, <<"0", "1", "0", "0">>>>),
     Field(T13C, <<<<"R", "N", "C", "T", "I", "M", "E">>, <<"1", "0", "1", "2">>,
                   <<"-">>, <<"0", "5", "0", "0">>>>),
     Field(T71F, <<<<"U", "S", "D">>, <<"1", "0", "0">>, <<"0", "0">>>>),
     Field(T71F, <<<<"E", "U", "R">>, <<"5", "0">>, <<"0", "0">>>>),
     Field(<<"2", "0">>, <<<<"R", "E", "F", "1">>>>)}

InitRepeat == InitCall(BodyInputs(SeqsUpTo(RepeatPool, MaxFields)))

SpecRepeat == InitRepeat /\ [][Next]_vars

\* the fields of the body, and those with a given tag in body order
Body == input.b4[1]

Is13C(f) == f.tag = T13C

Is71F(f) == f.tag = T71F

\* HHMM as HH:MM:00
Clock(hhmm) == <<hhmm[1], hhmm[2], ":", hhmm[3], hhmm[4], ":", "0", "0">>

\* the record of an occurrence of 13C, from the parts it was written from
Expected13C(f) ==
    [F13C_Code |-> f.parts[1],
     F13C_Time |-> Clock(f.parts[2]),
     F13C_Sign |-> f.parts[3],
     F13C_Offset |-> Clock(f.parts[4])]

\* the record of an occurrence of 71F, from the parts it was written from
Expected71F(f) ==
    [F71F_Curr |-> f.parts[1], F71F_Amount |-> f.parts[2] \o <<".">> \o f.parts[3]]

\* no group for no occurrence, one object for one, the ordered list for more
Cardinality_Rule(A, group, key, expected) ==
    IF expected = <<>> THEN ~Has(A, group)
    ELSE /\ Has(A, group)
         /\ DOMAIN A[group] = {key}
         /\ A[group][key] = IF Len(expected) = 1
                            THEN [type |-> "dict", value |-> expected[1]]
                            ELSE [type |-> "list", value |-> expected]

Occurrences13C == LET occ == SelectSeq(Body, Is13C)
                  IN  [k \in 1..Len(occ) |-> Expected13C(occ[k])]

Occurrences71F == LET occ == SelectSeq(Body, Is71F)
                  IN  [k \in 1..Len(occ) |-> Expected71F(occ[k])]

\* C3: a repeatable tag (13C, 71F) that occurs once is stored as a single
\* object under A1.F13C / A3.F71F, one that occurs n >= 2 times as the list
\* of its n objects in body order, and one that does not occur has no group
\* key.
C3_RepeatableCardinality ==
    (Returned /\ Written(input.b4)) =>
        /\ Has(ret.MT103, "A")
        /\ Cardinality_Rule(ret.MT103.A, "A1", "F13C", Occurrences13C)
        /\ Cardinality_Rule(ret.MT103.A, "A3", "F71F", Occurrences71F)

C3_Witness ==
    /\ Returned
    /\ Written(input.b4)
    /\ Len(Occurrences13C) = 2
    /\ Occurrences13C[1] # Occurrences13C[2]
    /\ Len(Occurrences71F) = 1
    /\ ret.MT103.A.A1.F13C.type = "list"
    /\ ret.MT103.A.A3.F71F.type = "dict"

-----------------------------------------------------------------------------
(* Ordering customer and the 56 / 57 options: messages whose block 4 is    *)
(* any sequence of at most MaxParties fields of PartyPool                  *)

MaxParties == 2

T50F == <<"5", "0", "F">>

T50K == <<"5", "0", "K">>

\* 50F with two lines, 50F with nothing after its delimiter, 50K, a
\* narrative that quotes the 50F delimiter, 56A/C/D and 57A/B/C/D
PartyPool ==
    {Field(T50F, <<<<"/", "1", "2", "3", "4", "5">>, <<"1", "/", "A", "C", "M", "E">>>>),
     Field(T50F, <<>>),
     Field(T50K, <<<<"/", "9", "8", "7", "6", "5">>,
                   <<"A", "C", "M", "E", " ", "C", "O", "R", "P">>>>),
     Field(<<"7", "2">>, <<<<"/", "I", "N", "S", "/", ":", "5", "0", "F", ":", "X">>>>),
     Field(<<"5", "6", "A">>, <<<<"I", "N", "T", "R", "U", "S", "5", "5", "X", "X", "X">>>>),
     Field(<<"5", "6", "C">>, <<<<"/", "/", "S", "C", "1", "2", "3">>>>),
     Field(<<"5", "6", "D">>, <<<<"C", "I", "T", "Y", " ", "B", "A", "N", "K">>,
                                <<"L", "O", "N", "D", "O", "N">>>>),
     Field(<<"5", "7", "A">>, <<<<"B", "E", "N", "E", "G", "B", "2", "2", "X", "X", "X">>>>),
     Field(<<"5", "7", "B">>, <<<<"/", "A", "C", "C", "1">>>>),
     Field(<<"5", "7", "C">>, <<<<"/", "/", "S", "C", "9", "9", "9">>>>),
     Field(<<"5", "7", "D">>, <<<<"B", "E", "N", "E", " ", "B", "A", "N", "K">>,
                                <<"P", "A", "R", "I", "S">>>>)}

InitParty == InitCall(BodyInputs(SeqsUpTo(PartyPool, MaxParties)))

SpecParty == InitParty /\ [][Next]_vars

HasTag(tag) == \E k \in 1..Len(Body) : Body[k].tag = tag

\* the literal ":50F:" occurs in the body, as a delimiter or inside a value
Marker50F == \E k \in 1..Len(Body) : Contains(field_text(Body[k]), Delim(T50F))

\* C4: when the literal ":50F:" occurs anywhere in the body the document has
\* no F50K key, also when ":50K:" occurs and when the decode of 50F gave no
\* record; no document has both F50F and F50K.
C4_Exclusive50 ==
    (Returned /\ Written(input.b4)) =>
        /\ Has(ret.MT103, "A")
        /\ Marker50F => ~Has(ret.MT103.A, "F50K")
        /\ ~(Has(ret.MT103.A, "F50F") /\ Has(ret.MT103.A, "F50K"))

\* ":50K:" is in the body, ":50F:" ends the body and decodes to nothing
C4_Witness ==
    /\ Returned
    /\ Len(Body) = 2
    /\ Body[1].tag = T50K
    /\ Body[2] = Field(T50F, <<>>)
    /\ ~Has(ret.MT103.A, "F50F")
    /\ ~Has(ret.MT103.A, "F50K")

\* the first field of the body with the given tag
FirstWithTag(tag) == Body[Min({k \in 1..Len(Body) : Body[k].tag = tag})]

\* the key and value the first suffix in precedence order gives, no key when
\* no suffix of the number occurs
RECURSIVE ByPrecedence(_, _, _, _)
ByPrecedence(num, name, label, suffixes) ==
    IF suffixes = <<>> THEN EmptyDict
    ELSE IF HasTag(num \o <<Head(suffixes)>>)
    THEN (name \o Head(suffixes)) :>
            ((name \o Head(suffixes) \o label) :>
                 join(NL, FirstWithTag(num \o <<Head(suffixes)>>).parts))
    ELSE ByPrecedence(num, name, label, Tail(suffixes))

Keys56 == {"F56A", "F56C", "F56D"}

Keys57 == {"F57A", "F57B", "F57C", "F57D"}

\* C5: the document holds at most one F56x key and at most one F57x key,
\* the one of the first suffix in precedence order (A, C, D and A, B, C, D)
\* that has a span in the body, wherever the spans stand: a body with a 56A
\* and a 56D span gives F56A and neither F56C nor F56D.
C5_SuffixPrecedence ==
    (Returned /\ Written(input.b4)) =>
        /\ Has(ret.MT103, "A")
        /\ Restrict(ret.MT103.A, Keys56)
             = ByPrecedence(<<"5", "6">>, "F56", "_Intermediary", <<"A", "C", "D">>)
        /\ Restrict(ret.MT103.A, Keys57)
             = ByPrecedence(<<"5", "7">>, "F57", "_AccountWithInstitution",
                            <<"A", "B", "C", "D">>)
        /\ Cardinality((DOMAIN ret.MT103.A) \cap Keys56) <= 1
        /\ Cardinality((DOMAIN ret.MT103.A) \cap Keys57) <= 1

\* 56D stands before 56A in the body
C5_Witness ==
    /\ Returned
    /\ Len(Body) = 2
    /\ Body[1].tag = <<"5", "6", "D">>
    /\ Body[2].tag = <<"5", "6", "A">>
    /\ (DOMAIN ret.MT103.A) \cap Keys56 = {"F56A"}

-----------------------------------------------------------------------------
(* Calls of the helper functions on their own                              *)

InitHelper(name, args) ==
    /\ fn = name
    /\ arg \in args
    /\ ret = None
    /\ pc = "call"
    /\ input = None
    /\ mt103_message = None
    /\ blocks = EmptyDict
    /\ result = None

CallParseDate ==
    /\ pc = "call"
    /\ fn = "parse_date"
    /\ ret' = parse_date(arg)
    /\ pc' = "done"
    /\ UNCHANGED <<input, mt103_message, blocks, result, fn, arg>>

CallParseBasicHeader ==
    /\ pc = "call"
    /\ fn = "parse_basic_header"
    /\ ret' = parse_basic_header(arg)
    /\ pc' = "done"
    /\ UNCHANGED <<input, mt103_message, blocks, result, fn, arg>>

\* the month and day digits run over 0..MaxDateDigit, the year over 00..99
MaxDateDigit == 2

DateDigits == {DigitChar[n + 1] : n \in 0..MaxDateDigit}

\* YYMMDD, and strings of digits that are not six characters long
DateStrings ==
    {<<y1, y2, m1, m2, d1, d2>> : y1 \in Digit, y2 \in Digit, m1 \in DateDigits,
                                  m2 \in DateDigits, d1 \in DateDigits, d2 \in DateDigits}
    \cup UNION {[1..n -> DateDigits] : n \in {0, 1, 5, 7}}

InitDate == InitHelper("parse_date", DateStrings)

NextDate == CallParseDate

SpecDate == InitDate /\ [][NextDate]_vars

\* the two-digit year is at most 50
AtMost50(y1, y2) == y1 \in {"0", "1", "2", "3", "4"} \/ (y1 = "5" /\ y2 = "0")

\* C2: for a 6-digit string YYMMDD parse_date returns CCYY-MM-DD with CC = 20
\* when YY <= 50 and CC = 19 when YY >= 51, MM and DD copied unchanged; the
\* year always has four digits.
C2_CenturyPivot ==
    (Returned /\ fn = "parse_date" /\ Len(arg) = 6) =>
        /\ Len(ret) = 10
        /\ ret = (IF AtMost50(arg[1], arg[2]) THEN <<"2", "0">> ELSE <<"1", "9">>)
                 \o <<arg[1], arg[2], "-", arg[3], arg[4], "-", arg[5], arg[6]>>

\* "500101" gives "2050-01-01"
C2_Witness ==
    /\ Returned
    /\ fn = "parse_date"
    /\ arg = <<"5", "0", "0", "1", "0", "1">>
    /\ ret = <<"2", "0", "5", "0", "-", "0", "1", "-", "0", "1">>

\* the most characters appended to a well-formed basic header
MaxExtra == 2

\* "F01PTSBCHSSAXXX0001000001"
BasicHeaders ==
    {ValidBasic,
     <<"F", "0", "1", "P", "T", "S", "B", "C", "H", "S", "S", "A", "X", "X", "X",
       "0", "0", "0", "1", "0", "0", "0", "0", "0", "1">>}

\* characters that take the place of one character of a header, or follow it
OtherChars == {"a", "-", " ", "A", "0", "F"}

\* the well-formed headers, their prefixes, the headers with one character
\* replaced and the headers followed by at most MaxExtra characters
HeaderStrings ==
    UNION {{SubSeq(h, 1, n) : n \in 0..Len(h)}
           \cup {[h EXCEPT ![k] = ch] : k \in 1..Len(h), ch \in OtherChars}
           \cup {h \o e : e \in SeqsUpTo(OtherChars, MaxExtra)}
           : h \in BasicHeaders}

InitBasic == InitHelper("parse_basic_header", HeaderStrings)

NextBasic == CallParseBasicHeader

SpecBasic == InitBasic /\ [][NextBasic]_vars

\* exactly "F", 2 digits, 12 uppercase letters or digits, 4 digits, 6 digits
ExactLayout(h) ==
    /\ Len(h) = 25
    /\ h[1] = "F"
    /\ \A k \in 2..3 : h[k] \in Digit
    /\ \A k \in 4..15 : h[k] \in Upper \cup Digit
    /\ \A k \in 16..25 : h[k] \in Digit

\* C10: parse_basic_header returns header fields only for a content that is
\* exactly "F", a 2-digit service id, a 12-character LT address, a 4-digit
\* session and a 6-digit sequence; a content of another length, also a
\* well-formed header followed by more characters, or with a character out
\* of place gives the empty record.
C10_ExactLayoutOnly ==
    (Returned /\ fn = "parse_basic_header") =>
        (DOMAIN ret # {} => ExactLayout(arg))

-----------------------------------------------------------------------------
(* parse_application_header on its own                                     *)

CallParseApplicationHeader ==
    /\ pc = "call"
    /\ fn = "parse_application_header"
    /\ ret' = parse_application_header(arg)
    /\ pc' = "done"
    /\ UNCHANGED <<input, mt103_message, blocks, result, fn, arg>>

\* "O1030919010321BBBBGRA0AXXX00570001710103210920N"
TestOutput ==
    <<"O", "1", "0", "3", "0", "9", "1", "9", "0", "1", "0", "3", "2", "1", "B",
      "B", "B", "B", "G", "R", "A", "0", "A", "X", "X", "X", "0", "0", "5", "7",
      "0", "0", "0", "1", "7", "1", "0", "1", "0", "3", "2", "1", "0", "9", "2",
      "0", "N">>

\* the output header of the test and the same with another message type
\* and priority, their prefixes, the headers with one character replaced and
\* the headers followed by at most MaxExtra characters; the input header of
\* the tests likewise
ApplicationHeaders ==
    UNION {{SubSeq(h, 1, n) : n \in 0..Len(h)}
           \cup {[h EXCEPT ![k] = ch] : k \in 1..Len(h), ch \in OtherChars}
           \cup {h \o e : e \in SeqsUpTo(OtherChars, MaxExtra)}
           : h \in {[[TestOutput EXCEPT ![4] = t] EXCEPT ![47] = p] :
                       t \in {"3", "2"}, p \in {"N", "U"}}
                    \cup {ValidInput}}

InitApplication == InitHelper("parse_application_header", ApplicationHeaders)

NextApplication == CallParseApplicationHeader

SpecApplication == InitApplication /\ [][NextApplication]_vars

\* "O", a 3-digit message type, a 4-digit input time, a 28-character message
\* input reference, a 6-digit output date, a 4-digit output time and a
\* priority letter
OutputLayout(h) ==
    /\ Len(h) = 47
    /\ h[1] = "O"
    /\ \A k \in 2..8 : h[k] \in Digit
    /\ \A k \in 9..36 : h[k] \in Upper \cup Digit
    /\ \A k \in 37..46 : h[k] \in Digit
    /\ h[47] \in Upper

\* C11: parse_application_header on an output header ("O", message type,
\* input time, message input reference, output date and time, priority
\* letter, as "O1030919010321BBBBGRA0AXXX00570001710103210920N") returns a
\* record with IO_ID = "O", MT = the 3 digits after "O", a MIR key and
\* Message_Priority = the priority letter that ends the header.
C11_OutputHeaderDecoded ==
    (Returned /\ fn = "parse_application_header" /\ OutputLayout(arg)) =>
        /\ {"IO_ID", "MT", "MIR", "Message_Priority"} \subseteq DOMAIN ret
        /\ ret.IO_ID = <<"O">>
        /\ ret.MT = SubSeq(arg, 2, 4)
        /\ ret.Message_Priority = <<arg[47]>>

-----------------------------------------------------------------------------
(* Account-id / name-address split: messages whose block 4 is any sequence *)
(* of at most MaxAccounts fields of AccountPool                            *)

MaxAccounts == 2

\* the tags of the fields of the later sections, by the name of their key
Tag ==
    [F20 |-> <<"2", "0">>, F23B |-> <<"2", "3", "B">>, F36 |-> <<"3", "6">>,
     F52D |-> <<"5", "2", "D">>, F54A |-> <<"5", "4", "A">>, F59 |-> <<"5", "9">>,
     F59A |-> <<"5", "9", "A">>, F71A |-> <<"7", "1", "A">>]

\* 52D, 54A and 59 with a value with an account line and two more lines,
\* with an account line only, with two lines and no account line, with
\* one line
AccountPool ==
    {Field(tag, parts) :
        tag \in {Tag.F52D, Tag.F54A, Tag.F59},
        parts \in
          {<<<<"/", "1", "2", "3", "4", "5", "6">>, <<"B", "E", "N", " ", "N", "A", "M", "E">>,
             <<"C", "I", "T", "Y">>>>,
           <<<<"/", "1", "2", "3", "4", "5", "6">>>>,
           <<<<"B", "A", "N", "K", " ", "N", "A", "M", "E">>, <<"C", "I", "T", "Y">>>>,
           <<<<"B", "A", "N", "K", "U", "S", "3", "3">>>>}}

InitAccount == InitCall(BodyInputs(SeqsUpTo(AccountPool, MaxAccounts)))

SpecAccount == InitAccount /\ [][Next]_vars

\* the entries of the split, from the lines the value was written from
ExpectedSplit(parts, acc_key, name_key) ==
    IF parts[1][1] = "/"
    THEN IF Len(parts) > 1
         THEN (acc_key :> parts[1]) @@ (name_key :> join(NL, Tail(parts)))
         ELSE acc_key :> parts[1]
    ELSE name_key :> join(NL, parts)

\* the record of the first span of the tag is the split of its lines
SplitRule(A, tag, key, acc_key, name_key) ==
    IF HasTag(tag)
    THEN Has(A, key) /\ A[key] = ExpectedSplit(FirstWithTag(tag).parts, acc_key, name_key)
    ELSE ~Has(A, key)

\* C13: the account-id / name-address split is the same for 52D, 54A and 59:
\* when the first line of the value starts with "/", the first line is the
\* account-id entry and all remaining lines are the name-address / BIC entry;
\* otherwise every line of the trimmed value is the name-address / BIC entry
\* and there is no account-id entry.
C13_SameSplit ==
    (Returned /\ Written(input.b4)) =>
        /\ Has(ret.MT103, "A")
        /\ SplitRule(ret.MT103.A, Tag.F52D, "F52D", "F52D_AccountId", "F52D_NameAddr")
        /\ SplitRule(ret.MT103.A, Tag.F54A, "F54A", "F54A_AccountId", "F54A_BIC")
        /\ SplitRule(ret.MT103.A, Tag.F59, "F59", "F59_ACC_ID_Party", "F59_Name_addr_Party")

-----------------------------------------------------------------------------
(* Amounts and rates: calls of parse_amount on its own, and messages whose *)
(* block 4 is any sequence of at most MaxAmounts fields of AmountPool      *)

CallParseAmount ==
    /\ pc = "call"
    /\ fn = "parse_amount"
    /\ ret' = parse_amount(arg)
    /\ pc' = "done"
    /\ UNCHANGED <<input, mt103_message, blocks, result, fn, arg>>

MaxAmountLen == 4

MaxAmounts == 2

\* the strings of at most MaxAmountLen characters, and "15000,11", "100,00"
AmountStrings ==
    SeqsUpTo({",", ".", "1", "a"}, MaxAmountLen)
    \cup {<<"1", "5", "0", "0", "0", ",", "1", "1">>, <<"1", "0", "0", ",", "0", "0">>}

\* ":32A:240101USD10000,00", ":32A:091120EUR1,000,50", ":33B:AUD16500,00",
\* ":36:0,91", ":36:1", ":71F:USD100,00", ":71F:EUR5,5"
AmountPool ==
    {Field(T32A, <<<<"2", "4", "0", "1", "0", "1">>, <<"U", "S", "D">>,
                   <<"1", "0", "0", "0", "0">>, <<"0", "0">>>>),
     Field(T32A, <<<<"0", "9", "1", "1", "2", "0">>, <<"E", "U", "R">>,
                   <<"1", ",", "0", "0", "0">>, <<"5", "0">>>>),
     Field(T33B, <<<<"A", "U", "D">>, <<"1", "6", "5", "0", "0">>, <<"0", "0">>>>),
     Field(Tag.F36, <<<<"0", ",", "9", "1">>>>),
     Field(Tag.F36, <<<<"1">>>>),
     Field(T71F, <<<<"U", "S", "D">>, <<"1", "0", "0">>, <<"0", "0">>>>),
     Field(T71F, <<<<"E", "U", "R">>, <<"5">>, <<"5">>>>)}

InitAmount ==
    \/ InitHelper("parse_amount", AmountStrings)
    \/ InitCall(BodyInputs(SeqsUpTo(AmountPool, MaxAmounts)))

NextAmount == CallParseAmount \/ Next

SpecAmount == InitAmount /\ [][NextAmount]_vars

\* a call of mt103_to_json on a message with a block 4 has returned
ReturnedFields == Returned /\ fn = "mt103_to_json" /\ Written(input.b4)

\* s with a dot in the place of every comma
Dotted(s) == [k \in 1..Len(s) |-> IF s[k] = "," THEN "." ELSE s[k]]

ChargeAmounts(A) ==
    IF ~Has(A, "A3") THEN <<>>
    ELSE IF A.A3.F71F.type = "dict" THEN <<A.A3.F71F.value.F71F_Amount>>
    ELSE [k \in 1..Len(A.A3.F71F.value) |-> A.A3.F71F.value[k].F71F_Amount]

\* the amounts of the 71F spans as they are written, with their commas
WrittenCharges ==
    LET occ == SelectSeq(Body, Is71F)
    IN  [k \in 1..Len(occ) |-> amount_text(occ[k].parts[2], occ[k].parts[3])]

\* C15: parse_amount replaces every comma of its argument by a dot and
\* changes no other character (same length, no comma in the result), so
\* that parse_amount of the result is the result; F32A_Amount and every
\* F71F_Amount are the written amounts with the same substitution.
C15_CommaToDot ==
    /\ (Returned /\ fn = "parse_amount") =>
          /\ Len(ret) = Len(arg)
          /\ \A k \in 1..Len(arg) : ret[k] = IF arg[k] = "," THEN "." ELSE arg[k]
          /\ \A k \in 1..Len(ret) : ret[k] # ","
          /\ parse_amount(ret) = ret
    /\ ReturnedFields =>
          /\ HasTag(T32A) =>
                /\ Has(ret.MT103.A, "F32A")
                /\ LET f == FirstWithTag(T32A)
                   IN  ret.MT103.A.F32A.F32A_Amount
                         = Dotted(amount_text(f.parts[3], f.parts[4]))
          /\ Len(ChargeAmounts(ret.MT103.A)) = Len(WrittenCharges)
          /\ \A k \in 1..Len(WrittenCharges) :
                ChargeAmounts(ret.MT103.A)[k] = Dotted(WrittenCharges[k])

\* parse_amount("1,,1") has returned "1..1"
C15_Witness ==
    /\ Returned
    /\ fn = "parse_amount"
    /\ arg = <<"1", ",", ",", "1">>
    /\ ret = <<"1", ".", ".", "1">>

-----------------------------------------------------------------------------
(* parse_field_13c on its own: texts of at most MaxTimes fields of         *)
(* TimePool, as parse_text_block hands them over                           *)

CallParseField13c ==
    /\ pc = "call"
    /\ fn = "parse_field_13c"
    /\ ret' = parse_field_13c(arg)
    /\ pc' = "done"
    /\ UNCHANGED <<input, mt103_message, blocks, result, fn, arg>>

MaxTimes == 3

\* ":13C:/CLSTIME/0915+0100", ":13C:/RNCTIME/1012-0500",
\* ":13C:/SNDTIME/2359+0000", ":13C:/CLSTIME/091+0100" (a 3-digit time),
\* ":20:REF1", ":72:/INS/BANK"
TimePool ==
    {Field(T13C, <<<<"C", "L", "S", "T", "I", "M", "E">>, <<"0", "9", "1", "5">>,
                   <<"+">>, <<"0", "1", "0", "0">>>>),
     Field(T13C, <<<<"R", "N", "C", "T", "I", "M", "E">>, <<"1", "0", "1", "2">>,
                   <<"-">>, <<"0", "5", "0", "0">>>>),
     Field(T13C, <<<<"S", "N", "D", "T", "I", "M", "E">>, <<"2", "3", "5", "9">>,
                   <<"+">>, <<"0", "0", "0", "0">>>>),
     Field(T13C, <<<<"C", "L", "S", "T", "I", "M", "E">>, <<"0", "9", "1">>,
                   <<"+">>, <<"0", "1", "0", "0">>>>),
     Field(<<"2", "0">>, <<<<"R", "E", "F", "1">>>>),
     Field(<<"7", "2">>, <<<<"/", "I", "N", "S", "/", "B", "A", "N", "K">>>>)}

InitTime ==
    /\ input \in BodyInputs(SeqsUpTo(TimePool, MaxTimes))
    /\ arg = text_block(input.b4[1])
    /\ fn = "parse_field_13c"
    /\ ret = None
    /\ pc = "call"
    /\ mt103_message = None
    /\ blocks = EmptyDict
    /\ result = None

NextTime == CallParseField13c

SpecTime == InitTime /\ [][NextTime]_vars

\* an occurrence written as /CODE/HHMM(+|-)hhmm
IsTimeIndication(f) == Is13C(f) /\ Len(f.parts[2]) = 4 /\ Len(f.parts[4]) = 4

\* C16: each occurrence ":13C:/CODE/HHMM(+|-)hhmm" decodes to the record
\* {F13C_Code = CODE, F13C_Time = "HH:MM:00", F13C_Sign = the sign,
\* F13C_Offset = "hh:mm:00"}, and parse_field_13c returns the records of all
\* occurrences in the order in which they occur in the text.
C16_TimeIndications ==
    (Returned /\ fn = "parse_field_13c") =>
        LET occ == SelectSeq(Body, IsTimeIndication)
        IN  /\ Len(ret) = Len(occ)
            /\ \A k \in 1..Len(occ) :
                  ret[k] = [F13C_Code |-> occ[k].parts[1],
                            F13C_Time |-> Clock(occ[k].parts[2]),
                            F13C_Sign |-> occ[k].parts[3],
                            F13C_Offset |-> Clock(occ[k].parts[4])]

\* RNCTIME 1012-0500 stands before CLSTIME 0915+0100 in the text
C16_Witness ==
    /\ Returned
    /\ fn = "parse_field_13c"
    /\ Len(ret) = 2
    /\ ret[1] = [F13C_Code |-> <<"R", "N", "C", "T", "I", "M", "E">>,
                 F13C_Time |-> <<"1", "0", ":", "1", "2", ":", "0", "0">>,
                 F13C_Sign |-> <<"-">>,
                 F13C_Offset |-> <<"0", "5", ":", "0", "0", ":", "0", "0">>]
    /\ ret[2].F13C_Code = <<"C", "L", "S", "T", "I", "M", "E">>
    /\ ret[2].F13C_Sign = <<"+">>

-----------------------------------------------------------------------------
(* Field spans: messages whose block 4 is any sequence of at most MaxSpans *)
(* fields of SpanPool                                                      *)

MaxSpans == 2

\* the multi-line fields with values of one to three lines, a colon that is
\* no tag delimiter ("DUE 10:30"), and the one-line fields 20 and 71A
SpanPool ==
    {Field(T50F, <<<<"/", "1", "2", "3", "4", "5">>, <<"1", "/", "A", "C", "M", "E">>,
                   <<"2", "/", "M", "A", "I", "N", " ", "S", "T">>>>),
     Field(T50K, <<<<"/", "9", "8", "7", "6", "5">>,
                   <<"A", "C", "M", "E", " ", "C", "O", "R", "P">>>>),
     Field(Tag.F52D, <<<<"/", "1", "2", "3", "4", "5", "6">>,
                   <<"B", "A", "N", "K", " ", "N", "A", "M", "E">>, <<"C", "I", "T", "Y">>>>),
     Field(Tag.F54A, <<<<"B", "A", "N", "K", " ", "N", "A", "M", "E">>, <<"C", "I", "T", "Y">>>>),
     Field(<<"5", "6", "A">>, <<<<"I", "N", "T", "R", "U", "S", "5", "5", "X", "X", "X">>>>),
     Field(<<"5", "6", "D">>, <<<<"C", "I", "T", "Y", " ", "B", "A", "N", "K">>,
                                <<"L", "O", "N", "D", "O", "N">>>>),
     Field(<<"5", "7", "D">>, <<<<"B", "E", "N", "E", " ", "B", "A", "N", "K">>,
                                <<"P", "A", "R", "I", "S">>>>),
     Field(Tag.F59, <<<<"/", "1", "2", "3", "4", "5", "6">>,
                  <<"B", "E", "N", " ", "N", "A", "M", "E">>>>),
     Field(<<"7", "0">>, <<<<"I", "N", "V", "O", "I", "C", "E", " ", "1", "2">>,
                           <<"D", "U", "E", " ", "1", "0", ":", "3", "0">>>>),
     Field(<<"7", "2">>, <<<<"/", "I", "N", "S", "/", "B", "A", "N", "K">>,
                           <<"/", "/", "M", "O", "R", "E">>>>),
     Field(<<"7", "7", "B">>, <<<<"/", "O", "R", "D", "E", "R", "R", "E", "S", "/", "U", "S">>,
                                <<"/", "/", "I", "N", "F", "O">>>>),
     Field(<<"2", "0">>, <<<<"R", "E", "F", "1">>>>),
     Field(<<"7", "1", "A">>, <<<<"S", "H", "A">>>>)}

InitSpan == InitCall(BodyInputs(SeqsUpTo(SpanPool, MaxSpans)))

SpecSpan == InitSpan /\ [][Next]_vars

\* the key of a multi-line tag and the entries of its record, in the order
\* of the lines they hold
SpanKeys(tag) ==
    CASE tag = T50F -> <<"F50F", <<"F50F_PartyIdentifier", "F50F_NameAddr">>>>
      [] tag = T50K -> <<"F50K", <<"F50K_OrderingCustomer">>>>
      [] tag = Tag.F52D -> <<"F52D", <<"F52D_AccountId", "F52D_NameAddr">>>>
      [] tag = Tag.F54A -> <<"F54A", <<"F54A_AccountId", "F54A_BIC">>>>
      [] tag = <<"5", "6", "A">> -> <<"F56A", <<"F56A_Intermediary">>>>
      [] tag = <<"5", "6", "D">> -> <<"F56D", <<"F56D_Intermediary">>>>
      [] tag = <<"5", "7", "D">> -> <<"F57D", <<"F57D_AccountWithInstitution">>>>
      [] tag = Tag.F59 -> <<"F59", <<"F59_ACC_ID_Party", "F59_Name_addr_Party">>>>
      [] tag = <<"7", "0">> -> <<"F70", <<"F70_PaymentDetails">>>>
      [] tag = <<"7", "2">> -> <<"F72", <<"F72_General">>>>
      [] tag = <<"7", "7", "B">> -> <<"F77B", <<"F77B_Narrative">>>>

MultiLineTags ==
    {T50F, T50K, Tag.F52D, Tag.F54A, <<"5", "6", "A">>, <<"5", "6", "D">>, <<"5", "7", "D">>,
     Tag.F59, <<"7", "0">>, <<"7", "2">>, <<"7", "7", "B">>}

\* the span of the tag that is decoded: 50K only without 50F, 56D only
\* without 56A
Decoded(tag) ==
    /\ HasTag(tag)
    /\ tag = T50K => ~HasTag(T50F)
    /\ tag = <<"5", "6", "D">> => ~HasTag(<<"5", "6", "A">>)

\* the entries of a record put together again, one line after the other
DecodedValue(rec, subs) ==
    LET present == SelectSeq(subs, LAMBDA s : Has(rec, s))
    IN  join(NL, [k \in 1..Len(present) |-> rec[present[k]]])

\* C17: the value decoded for a multi-line field (50F, 50K, 52D, 54A, 56x,
\* 57x, 59, 70, 72, 77B) is the text from just after its tag delimiter up to
\* the next tag delimiter or the end of the body: every continuation line
\* is in it, and the value of the last field of the body ends before the
\* block-4 terminator.
C17_MultiLineSpan ==
    ReturnedFields =>
        /\ Has(ret.MT103, "A")
        /\ \A tag \in MultiLineTags :
              Decoded(tag) =>
                  /\ Has(ret.MT103.A, SpanKeys(tag)[1])
                  /\ DecodedValue(ret.MT103.A[SpanKeys(tag)[1]], SpanKeys(tag)[2])
                       = join(NL, FirstWithTag(tag).parts)

-----------------------------------------------------------------------------
(* Mandatory tags: messages whose block 4 is FullBody with at most         *)
(* MaxAbsent of its fields left out                                        *)

MaxAbsent == 3

\* ":20:REF1", ":13C:/CLSTIME" (a code only), ":23B:CRED",
\* ":32A:240101USD10000,00", ":36:0,91", ":50K:" with two lines,
\* ":59:/1234-5678" with the line "BEN NAME", ":70:" with two lines,
\* ":71A:SHA"
FullBody ==
    <<Field(Tag.F20, <<<<"R", "E", "F", "1">>>>),
      Field(T13C, <<<<"/", "C", "L", "S", "T", "I", "M", "E">>>>),
      Field(Tag.F23B, <<<<"C", "R", "E", "D">>>>),
      Field(T32A, <<<<"2", "4", "0", "1", "0", "1">>, <<"U", "S", "D">>,
                    <<"1", "0", "0", "0", "0">>, <<"0", "0">>>>),
      Field(Tag.F36, <<<<"0", ",", "9", "1">>>>),
      Field(T50K, <<<<"/", "9", "8", "7", "6", "5">>,
                    <<"A", "C", "M", "E", " ", "C", "O", "R", "P">>>>),
      Field(Tag.F59, <<<<"/", "1", "2", "3", "4", "-", "5", "6", "7", "8">>,
                   <<"B", "E", "N", " ", "N", "A", "M", "E">>>>),
      Field(<<"7", "0">>, <<<<"I", "N", "V", "O", "I", "C", "E", " ", "1", "2">>,
                            <<"D", "U", "E", " ", "1", "0", ":", "3", "0">>>>),
      Field(Tag.F71A, <<<<"S", "H", "A">>>>)>>

\* FullBody without the fields at any at most MaxAbsent of its places
InitMandatory ==
    InitCall(BodyInputs(
        {Pick(FullBody, (1..Len(FullBody)) \ S) :
            S \in {T \in SUBSET (1..Len(FullBody)) : Cardinality(T) <= MaxAbsent}}))

SpecMandatory == InitMandatory /\ [][Next]_vars

\* the mandatory fields, well-formed, and the keys they are stored under
MandatoryFields == {FullBody[k] : k \in {1, 3, 4, 7, 9}}

MandatoryKey(tag) ==
    CASE tag = Tag.F20 -> "F20"
      [] tag = Tag.F23B -> "F23B"
      [] tag = T32A -> "F32A"
      [] tag = Tag.F59 -> "F59"
      [] tag = Tag.F71A -> "F71A"

\* body with f put between its fields i and i + 1
InsertAt(body, i, f) == SubSeq(body, 1, i) \o <<f>> \o SubSeq(body, i + 1, Len(body))

\* the fields section of the message of input with another block 4
FieldsOf(body) == mt103_to_json(message_text([input EXCEPT !.b4 = <<body>>])).MT103.A

Without(d, key) == [k \in (DOMAIN d) \ {key} |-> d[k]]

\* C18: for each mandatory tag T of 20, 23B, 32A, 59, 71A whose delimiter
\* does not occur in the body, the call returns a fields section with no key
\* for T, and the key and value of every other field are those of the same
\* body with a well-formed T span put between any two of its fields.
C18_MandatoryAbsent ==
    ReturnedFields =>
        /\ Has(ret.MT103, "A")
        /\ \A f \in MandatoryFields :
              ~HasTag(f.tag) =>
                  /\ ~Has(ret.MT103.A, MandatoryKey(f.tag))
                  /\ \A i \in 1..(Len(Body) - 1) :
                        /\ Has(FieldsOf(InsertAt(Body, i, f)), MandatoryKey(f.tag))
                        /\ Without(FieldsOf(InsertAt(Body, i, f)), MandatoryKey(f.tag))
                             = ret.MT103.A

-----------------------------------------------------------------------------
(* Malformed fields: messages whose block 4 is any sequence of at most     *)
(* MaxMalformed fields of MalformedPool                                    *)

MaxMalformed == 2

\* ":32A:24010USD100,00" (5-digit date), ":32A:240101usd100,00" (lowercase
\* currency), ":33B:AU16500,00" (2-letter currency), ":71F:US100,00",
\* ":71F:usd1,00", ":13C:/CLSTIME/091+0100" (3-digit time),
\* ":13C:/CLSTIME/09150100" (no sign), ":13C:/CLSTIME" (a code only), and
\* the well-formed ":32A:240101USD10000,00", ":71F:EUR50,00",
\* ":13C:/RNCTIME/1012-0500", ":20:REF1", ":59:/1234-5678" with the line
\* "BEN NAME", ":70:" with two lines
MalformedPool ==
    {Field(T32A, <<<<"2", "4", "0", "1", "0">>, <<"U", "S", "D">>,
                   <<"1", "0", "0">>, <<"0", "0">>>>),
     Field(T32A, <<<<"2", "4", "0", "1", "0", "1">>, <<"u", "s", "d">>,
                   <<"1", "0", "0">>, <<"0", "0">>>>),
     Field(T33B, <<<<"A", "U">>, <<"1", "6", "5", "0", "0">>, <<"0", "0">>>>),
     Field(T71F, <<<<"U", "S">>, <<"1", "0", "0">>, <<"0", "0">>>>),
     Field(T71F, <<<<"u", "s", "d">>, <<"1">>, <<"0", "0">>>>),
     Field(T13C, <<<<"C", "L", "S", "T", "I", "M", "E">>, <<"0", "9", "1">>,
                   <<"+">>, <<"0", "1", "0", "0">>>>),
     Field(T13C, <<<<"C", "L", "S", "T", "I", "M", "E">>, <<"0", "9", "1", "5">>,
                   <<>>, <<"0", "1", "0", "0">>>>),
     Field(T32A, <<<<"2", "4", "0", "1", "0", "1">>, <<"U", "S", "D">>,
                   <<"1", "0", "0", "0", "0">>, <<"0", "0">>>>),
     Field(T71F, <<<<"E", "U", "R">>, <<"5", "0">>, <<"0", "0">>>>),
     Field(T13C, <<<<"R", "N", "C", "T", "I", "M", "E">>, <<"1", "0", "1", "2">>,
                   <<"-">>, <<"0", "5", "0", "0">>>>),
     Field(T13C, <<<<"/", "C", "L", "S", "T", "I", "M", "E">>>>),
     Field(Tag.F20, <<<<"R", "E", "F", "1">>>>),
     Field(Tag.F59, <<<<"/", "1", "2", "3", "4", "-", "5", "6", "7", "8">>,
                  <<"B", "E", "N", " ", "N", "A", "M", "E">>>>),
     Field(<<"7", "0">>, <<<<"I", "N", "V", "O", "I", "C", "E", " ", "1", "2">>,
                           <<"D", "U", "E", " ", "1", "0", ":", "3", "0">>>>)}

InitMalformed == InitCall(BodyInputs(SeqsUpTo(MalformedPool, MaxMalformed)))

SpecMalformed == InitMalformed /\ [][Next]_vars

Currency(s) == Len(s) = 3 /\ \A k \in 1..3 : s[k] \in Upper

\* the parts of the field are those of its decoder's grammar
WellFormed(f) ==
    CASE f.tag = T32A -> Len(f.parts[1]) = 6 /\ Currency(f.parts[2])
      [] f.tag \in {T33B, T71F} -> Currency(f.parts[1])
      [] f.tag = T13C ->
           /\ Len(f.parts) = 4
           /\ Len(f.parts[2]) = 4
           /\ f.parts[3] \in {<<"+">>, <<"-">>}
           /\ Len(f.parts[4]) = 4
      [] OTHER -> TRUE

\* the number of objects stored under a repeatable tag
Stored(A, group, key) ==
    IF ~Has(A, group) THEN 0
    ELSE IF A[group][key].type = "dict" THEN 1
    ELSE Len(A[group][key].value)

\* the number of well-formed fields of the body with the tag
WellFormedCount(tag) ==
    Len(SelectSeq(Body, LAMBDA f : f.tag = tag /\ WellFormed(f)))

\* C19: a field whose delimiter is present but whose content does not match
\* the decoder's grammar (32A, 33B, 71F, 13C) contributes no key and no list
\* entry, and the document returned is the document of the same body with
\* the malformed spans removed.
C19_MalformedAsAbsent ==
    ReturnedFields =>
        /\ Has(ret.MT103, "A")
        /\ Has(ret.MT103.A, "F32A") <=> WellFormedCount(T32A) > 0
        /\ Has(ret.MT103.A, "F33B") <=> WellFormedCount(T33B) > 0
        /\ Stored(ret.MT103.A, "A3", "F71F") = WellFormedCount(T71F)
        /\ Stored(ret.MT103.A, "A1", "F13C") = WellFormedCount(T13C)
        /\ ret = mt103_to_json(message_text(
                     [input EXCEPT !.b4 = <<SelectSeq(Body, WellFormed)>>]))
-----------------------------------------------------------------------------
(* Order of the spans: messages whose block 4 is any arrangement of at     *)
(* most MaxOrder different fields of OrderPool                             *)

MaxOrder == 3

\* well-formed spans in the order the generator writes them: ":20:REF1",
\* ":23E:SDVA", ":50K:" and ":50F:" with two lines, ":56A:INTRUS55XXX",
\* ":56D:" and ":59:" with two lines, ":59A:BENEGB22XXX", ":71F:USD100,00",
\* ":71F:EUR50,00"
OrderPool ==
    <<Field(Tag.F20, <<<<"R", "E", "F", "1">>>>),
      Field(<<"2", "3", "E">>, <<<<"S", "D", "V", "A">>>>),
      Field(T50K, <<<<"/", "9", "8", "7", "6", "5">>,
                    <<"A", "C", "M", "E", " ", "C", "O", "R", "P">>>>),
      Field(T50F, <<<<"/", "1", "2", "3", "4", "5">>, <<"1", "/", "A", "C", "M", "E">>>>),
      Field(<<"5", "6", "A">>, <<<<"I", "N", "T", "R", "U", "S", "5", "5", "X", "X", "X">>>>),
      Field(<<"5", "6", "D">>, <<<<"C", "I", "T", "Y", " ", "B", "A", "N", "K">>,
                                 <<"L", "O", "N", "D", "O", "N">>>>),
      Field(Tag.F59, <<<<"/", "1", "2", "3", "4", "5", "6">>,
                   <<"B", "E", "N", " ", "N", "A", "M", "E">>>>),
      Field(Tag.F59A, <<<<"B", "E", "N", "E", "G", "B", "2", "2", "X", "X", "X">>>>),
      Field(T71F, <<<<"U", "S", "D">>, <<"1", "0", "0">>, <<"0", "0">>>>),
      Field(T71F, <<<<"E", "U", "R">>, <<"5", "0">>, <<"0", "0">>>>)>>

\* the arrangements of at most MaxOrder different fields of the pool
InitOrder ==
    InitCall(BodyInputs(
        {[k \in 1..Len(ix) |-> OrderPool[ix[k]]] :
            ix \in {s \in SeqsUpTo(1..Len(OrderPool), MaxOrder) :
                       \A i, j \in 1..Len(s) : i # j => s[i] # s[j]}}))

SpecOrder == InitOrder /\ [][Next]_vars

\* the tags of the pool, each on its own
TagsApart ==
    <<{Tag.F20}, {<<"2", "3", "E">>}, {T50K}, {T50F}, {<<"5", "6", "A">>}, {<<"5", "6", "D">>},
      {Tag.F59}, {Tag.F59A}, {T71F}>>

\* the tags of the pool, 59 and 59A taken as one tag
TagsOfDecoders ==
    <<{Tag.F20}, {<<"2", "3", "E">>}, {T50K}, {T50F}, {<<"5", "6", "A">>}, {<<"5", "6", "D">>},
      {Tag.F59, Tag.F59A}, {T71F}>>

\* the spans of the body tag by tag, the occurrences of one tag in the
\* order they have in the body
TagByTag(body, tags) ==
    concat([k \in 1..Len(tags) |-> SelectSeq(body, LAMBDA f : f.tag \in tags[k])])

\* C20: the fields section does not depend on the order of the spans in
\* block 4: for a body of well-formed spans with pairwise distinct tags every
\* arrangement of the spans gives the same fields section as the arrangement
\* tag by tag, and for a repeatable tag only the order among its own
\* occurrences shows in the output.
C20_OrderIndependent ==
    ReturnedFields =>
        /\ Has(ret.MT103, "A")
        /\ ret.MT103.A = FieldsOf(TagByTag(Body, TagsApart))

\* C20 as amended: the same, with 59 and 59A counted as one tag, of which
\* the span that stands first in the body is the one decoded.
C20_OrderIndependentPerDecoder ==
    ReturnedFields =>
        /\ Has(ret.MT103, "A")
        /\ ret.MT103.A = FieldsOf(TagByTag(Body, TagsOfDecoders))

\* 56D stands before 56A and 20 comes last
C20_Witness ==
    /\ ReturnedFields
    /\ Len(Body) = 3
    /\ Body[1].tag = <<"5", "6", "D">>
    /\ Body[2].tag = <<"5", "6", "A">>
    /\ Body[3].tag = Tag.F20
    /\ TagByTag(Body, TagsOfDecoders) # Body
    /\ DOMAIN ret.MT103.A = {"F20", "F56A"}

====
